---- MODULE Spec2Model ----
(***************************************************************************)
(* Model of package changeset of zoedsoupe/exo: Cast, the chain operations *)
(* of Changeset[T] (PutChange, UpdateChange, ValidateRequired,             *)
(* ValidateChange, AddError) and the materializers Apply / ApplyNew.       *)
(*                                                                         *)
(* A Changeset[T] is a Go struct passed by value.  Its fields changes,     *)
(* errors and validations are Go maps, i.e. references: every struct copy  *)
(* made by a value receiver shares the three maps that Cast allocated,     *)
(* while IsValid is copied with the struct.  The model therefore keeps the *)
(* three maps once (the heap objects) and one IsValid flag per caller      *)
(* variable that holds a Changeset value.                                  *)
(***************************************************************************)
EXTENDS Integers, Sequences, FiniteSets, TLC

VARIABLES
    pc,           \* "init" | "chain" | "applied" | "panic"
    params,       \* c.params: the payload given to Cast
    changes,      \* the map object behind c.changes
    errors,       \* the map object behind c.errors
    validations,  \* the map object behind c.validations
    cs,           \* caller variable -> the Changeset struct value it holds
    target,       \* the existing instance of T that Apply writes through s *T
    result,       \* what Apply / ApplyNew returned
    steps,        \* number of chain calls made so far
    last,         \* the most recent call, with the state it started from
    verdict       \* the most recent direct call v.Validate(field, value), with
                  \* what it returned

vars == <<pc, params, changes, errors, validations, cs, target, result, steps, last, verdict>>

-----------------------------------------------------------------------------
(* Bounds and input sets *)

MaxOps == 2

\* caller variables that may hold a Changeset value: c := Cast(..); r := c.Op(..)
Vars == {"c", "r"}

\* dynamically typed values (interface{}): the dynamic type, and the content
StrV(s) == [type |-> "string", s |-> s, n |-> 0]
IntV(n) == [type |-> "int", s |-> "", n |-> n]
Nil == [type |-> "nil", s |-> "", n |-> 0]

Hello == StrV("hello")
Oi == StrV("oi")
Two == IntV(2)

\* len(s) of the strings used
StrLen(s) == CASE s = "hello" -> 5 [] s = "oi" -> 2 [] OTHER -> 0

\* names used as payload keys and as field arguments; "foo" is no field of T
Keys == {"A", "B", "foo"}

CallValues == {Hello, Oi, Two, Nil}

\* a Go map: a function whose domain is the set of keys present
Maps(K, V) == UNION {[D -> V] : D \in SUBSET K}

EmptyMap == [k \in {} |-> Nil]

Has(m, k) == k \in DOMAIN m

Put(m, k, v) == [x \in DOMAIN m \cup {k} |-> IF x = k THEN v ELSE m[x]]

\* payloads: every choice of absent / string / int for the fields of T, with or
\* without a key that is no field, and two payloads holding a nil value
Payloads ==
    {p \in Maps(Keys, {Hello, Two}) : Has(p, "foo") => p["foo"] = Two}
        \cup {[k \in {"A"} |-> Nil], [k \in {"A", "foo"} |-> IF k = "A" THEN Hello ELSE Nil]}

-----------------------------------------------------------------------------
(* The target shape: type T struct { A string; B int } *)

StructFields == <<[Name |-> "A", Type |-> "string"], [Name |-> "B", Type |-> "int"]>>

FieldNames == {StructFields[i].Name : i \in DOMAIN StructFields}

\* r.FieldByName(name).Type()
FieldType(name) == StructFields[CHOOSE i \in DOMAIN StructFields : StructFields[i].Name = name].Type

\* i-th field's type, as PutChange reads it through sfs[i]
TypeAt(i) == StructFields[i].Type

\* var s T: the zero value of T
ZeroT == [A |-> StrV(""), B |-> IntV(0)]

\* the instance the caller passes to Apply
Existing == [A |-> Oi, B |-> IntV(1)]

\* reflect.TypeOf(v).String() for a non-nil v
TypeString(v) == v.type

\* reflect.ValueOf(v).IsValid(): false exactly for the nil interface
ValueIsValid(v) == v # Nil

\* val.Type().AssignableTo(t) for the concrete (non-interface) types of T
AssignableBug(v, t) == TRUE

AssignableTo(v, t) == v.type = t

-----------------------------------------------------------------------------
(* Validators *)

LengthValidator(min, max) == [name |-> "LengthValidator", Min |-> min, Max |-> max]
AcceptanceValidator == [name |-> "AcceptanceValidator"]

Validators == {LengthValidator(5, 5), LengthValidator(1, 2), AcceptanceValidator}

\* fmt.Errorf(msg, how, n) for the messages "should be %s %d characters" (kept as
\* the text before %s and the text after %d) and for the empty format string
Errorf(msg, how, n) ==
    IF msg = <<>>
    THEN "%!(EXTRA string=" \o how \o ", int=" \o ToString(n) \o ")"
    ELSE msg[1] \o how \o " " \o ToString(n) \o msg[2]

\* LengthValidator.Validate: the switch is on reflect.TypeOf(v).String(), which is
\* "string" for a string and never "slice" or "map"
LengthValidate(lv, field, v) ==
    LET t == TypeString(v)
        l == IF t = "string" THEN StrLen(v.s) ELSE -1
        msg == IF t = "string" THEN <<"should be ", " characters">> ELSE <<>>
    IN  IF lv.Min = lv.Max /\ l # lv.Min THEN [ok |-> FALSE, err |-> Errorf(msg, "", lv.Min)]
        ELSE IF l < lv.Min THEN [ok |-> FALSE, err |-> Errorf(msg, "at least", lv.Min)]
        ELSE IF l > lv.Max THEN [ok |-> FALSE, err |-> Errorf(msg, "at most", lv.Max)]
        ELSE [ok |-> TRUE, err |-> ""]

AcceptanceValidate(av, field, val) ==
    IF val.type # "bool" THEN [ok |-> FALSE, err |-> "isn't a boolean"]
    ELSE IF val.n # 1 THEN [ok |-> FALSE, err |-> "must be accepted"]
    ELSE [ok |-> TRUE, err |-> ""]

\* the characters of the strings used
Chars(s) ==
    CASE s = "hello" -> <<"h", "e", "l", "l", "o">>
      [] s = "oi" -> <<"o", "i">>
      [] OTHER -> <<>>

\* a *regexp.Regexp: a sequence of atoms, each a character, a character under a
\* greedy star, ^ or $
Char(c) == [k |-> "char", c |-> c]
Star(c) == [k |-> "star", c |-> c]
Bol == [k |-> "bol", c |-> ""]
Eol == [k |-> "eol", c |-> ""]

\* where the match of atoms a.. of pat that starts at place i of s ends (the place
\* after its last character), a star taking as many characters as the rest of
\* the pattern allows; 0 when there is no match at i
RECURSIVE MatchEnd(_, _, _, _)
MatchEnd(pat, a, s, i) ==
    IF a > Len(pat) THEN i
    ELSE LET at == pat[a]
         IN  CASE at.k = "char" ->
                    IF i <= Len(s) /\ s[i] = at.c THEN MatchEnd(pat, a + 1, s, i + 1) ELSE 0
               [] at.k = "bol" -> IF i = 1 THEN MatchEnd(pat, a + 1, s, i) ELSE 0
               [] at.k = "eol" -> IF i = Len(s) + 1 THEN MatchEnd(pat, a + 1, s, i) ELSE 0
               [] OTHER ->
                    LET run == {n \in 0..(Len(s) + 1 - i) : \A j \in i..(i + n - 1) : s[j] = at.c}
                        fit == {n \in run : MatchEnd(pat, a + 1, s, i + n) # 0}
                    IN  IF fit = {} THEN 0
                        ELSE MatchEnd(pat, a + 1, s, i + CHOOSE n \in fit : \A m \in fit : m <= n)

\* the places of s where a match of pat starts
MatchStarts(pat, s) == {i \in 1..(Len(s) + 1) : MatchEnd(pat, 1, s, i) # 0}

\* re.FindString(s): the text of the leftmost match, "" when there is no match
FindString(pat, s) ==
    IF MatchStarts(pat, s) = {} THEN <<>>
    ELSE LET i == CHOOSE j \in MatchStarts(pat, s) : \A k \in MatchStarts(pat, s) : j <= k
         IN  SubSeq(s, i, MatchEnd(pat, 1, s, i) - 1)

FormatValidator(pattern) == [name |-> "FormatValidator", Pattern |-> pattern]

FormatValidate(fv, field, val) ==
    IF val.type # "string" THEN [ok |-> FALSE, err |-> "is not a string"]
    ELSE IF FindString(fv.Pattern, Chars(val.s)) = <<>>
    THEN [ok |-> FALSE, err |-> "has invalid format"]
    ELSE [ok |-> TRUE, err |-> ""]

\* reflect.DeepEqual on the values used: same dynamic type and same content
DeepEqual(a, b) == a = b

ExclusionValidator(disallowed) == [name |-> "ExclusionValidator", Disallowed |-> disallowed]

\* the loop of ExclusionValidator.Validate from ev.Disallowed[i] on
RECURSIVE ExclusionLoop(_, _, _)
ExclusionLoop(i, list, value) ==
    IF i > Len(list) THEN [ok |-> FALSE, err |-> "is reserved"]
    ELSE IF ~DeepEqual(value, list[i]) THEN [ok |-> TRUE, err |-> ""]
    ELSE ExclusionLoop(i + 1, list, value)

ExclusionValidate(ev, field, value) == ExclusionLoop(1, ev.Disallowed, value)

InclusionValidator(allowed) == [name |-> "InclusionValidator", Allowed |-> allowed]

\* the loop of InclusionValidator.Validate from iv.Allowed[i] on
RECURSIVE InclusionLoop(_, _, _)
InclusionLoop(i, list, value) ==
    IF i > Len(list) THEN [ok |-> FALSE, err |-> "is invalid"]
    ELSE IF DeepEqual(value, list[i]) THEN [ok |-> TRUE, err |-> ""]
    ELSE InclusionLoop(i + 1, list, value)

\* InclusionValidator that looks at the first element of Allowed only
InclusionFirstOnly(iv, field, value) ==
    InclusionLoop(1, SubSeq(iv.Allowed, 1, IF Len(iv.Allowed) > 0 THEN 1 ELSE 0), value)

InclusionValidate(iv, field, value) == InclusionLoop(1, iv.Allowed, value)

\* the numeric validators, instantiated at the Number type T
LessThanValidator(T, max) == [name |-> "LessThanValidator", T |-> T, MaxValue |-> max]
LessThanOrEqualValidator(T, max) == [name |-> "LessThanOrEqualValidator", T |-> T, MaxValue |-> max]
GreaterThanValidator(T, min) == [name |-> "GreaterThanValidator", T |-> T, MinValue |-> min]
GreaterThanOrEqualValidator(T, min) == [name |-> "GreaterThanOrEqualValidator", T |-> T, MinValue |-> min]

\* v, ok := val.(T): the zero value of T when val has another dynamic type
AssertNumber(val, T) == [v |-> IF val.type = T THEN val.n ELSE 0, ok |-> val.type = T]

LessThanValidate(ltv, field, val) ==
    LET a == AssertNumber(val, ltv.T)
    IN  IF ~a.ok THEN [ok |-> FALSE, err |-> "isn't a Number " \o ToString(a.v)]
        ELSE IF a.v > ltv.MaxValue THEN [ok |-> FALSE, err |-> "must be less than " \o ToString(a.v)]
        ELSE [ok |-> TRUE, err |-> ""]

LessThanOrEqualValidate(ltv, field, val) ==
    LET a == AssertNumber(val, ltv.T)
    IN  IF ~a.ok THEN [ok |-> FALSE, err |-> "isn't a Number " \o ToString(a.v)]
        ELSE IF a.v >= ltv.MaxValue
        THEN [ok |-> FALSE, err |-> "must be less than or equal to " \o ToString(a.v)]
        ELSE [ok |-> TRUE, err |-> ""]

GreaterThanValidate(gtv, field, val) ==
    LET a == AssertNumber(val, gtv.T)
    IN  IF ~a.ok THEN [ok |-> FALSE, err |-> "isn't a Number " \o ToString(a.v)]
        ELSE IF a.v < gtv.MinValue THEN [ok |-> FALSE, err |-> "must be greater than " \o ToString(a.v)]
        ELSE [ok |-> TRUE, err |-> ""]

GreaterThanOrEqualValidate(gtv, field, val) ==
    LET a == AssertNumber(val, gtv.T)
    IN  IF ~a.ok THEN [ok |-> FALSE, err |-> "isn't a Number " \o ToString(a.v)]
        ELSE IF a.v <= gtv.MinValue
        THEN [ok |-> FALSE, err |-> "must be greater than or equal to " \o ToString(a.v)]
        ELSE [ok |-> TRUE, err |-> ""]

\* v.Validate(field, val): dispatch on the validator's dynamic type
Validate(v, field, val) ==
    CASE v.name = "LengthValidator" -> LengthValidate(v, field, val)
      [] v.name = "FormatValidator" -> FormatValidate(v, field, val)
      [] v.name = "ExclusionValidator" -> ExclusionValidate(v, field, val)
      [] v.name = "InclusionValidator" -> InclusionValidate(v, field, val)
      [] v.name = "LessThanValidator" -> LessThanValidate(v, field, val)
      [] v.name = "LessThanOrEqualValidator" -> LessThanOrEqualValidate(v, field, val)
      [] v.name = "GreaterThanValidator" -> GreaterThanValidate(v, field, val)
      [] v.name = "GreaterThanOrEqualValidator" -> GreaterThanOrEqualValidate(v, field, val)
      [] OTHER -> AcceptanceValidate(v, field, val)

-----------------------------------------------------------------------------
(* The methods, as functions of the receiver.  A receiver st is the struct   *)
(* copy the method works on, with its maps dereferenced:                    *)
(* [changes, errors, validations, IsValid, panic].  What a method does to   *)
(* st.changes, st.errors and st.validations it does to the shared maps.     *)

Receiver(ch, er, va, iv) ==
    [changes |-> ch, errors |-> er, validations |-> va, IsValid |-> iv, panic |-> FALSE]

Panic(st) == [st EXCEPT !.panic = TRUE]

\* func (c Changeset[T]) AddError(field, err): writes the map, leaves IsValid
AddError(st, field, err) == [st EXCEPT !.errors = Put(@, field, err)]

\* the loop of Cast over exo.StructFields(s), from field i on
RECURSIVE CastLoop(_, _, _)
CastLoop(i, p, st) ==
    IF i > Len(StructFields) THEN st
    ELSE LET field == StructFields[i].Name
             sType == StructFields[i].Type
         IN  IF ~Has(p, field) THEN CastLoop(i + 1, p, st)
             ELSE IF p[field] = Nil THEN Panic(st)  \* reflect.TypeOf(nil).String()
             ELSE IF TypeString(p[field]) # sType
             THEN CastLoop(i + 1, p,
                      AddError([st EXCEPT !.IsValid = FALSE], field,
                               "type mismatch: expect " \o sType \o " got " \o TypeString(p[field])))
             ELSE CastLoop(i + 1, p, [st EXCEPT !.changes = Put(@, field, p[field])])

\* Cast as the earlier filterFields did it: keeps the fields of T, checks no type
CastUnchecked(p) ==
    Receiver([f \in DOMAIN p \cap FieldNames |-> p[f]], EmptyMap, EmptyMap, TRUE)

\* func Cast[T](params): fresh maps, IsValid = true, then the loop
CastOf(p) == CastLoop(1, p, Receiver(EmptyMap, EmptyMap, EmptyMap, TRUE))

\* PutChange that marks the changeset valid again when the write succeeds
PutChangeRevalidates(st, field, change) ==
    IF field \in FieldNames
    THEN IF change = Nil THEN Panic(st)
         ELSE IF ~AssignableTo(change, FieldType(field))
         THEN [st EXCEPT !.IsValid = FALSE, !.errors = Put(@, field, "type mismatch")]
         ELSE [st EXCEPT !.changes = Put(@, field, change), !.IsValid = TRUE]
    ELSE [st EXCEPT !.IsValid = FALSE, !.errors = Put(@, field, field \o " is invalid")]

\* PutChange that does not look the field up in T
PutChangeAnyField(st, field, change) ==
    IF change = Nil THEN Panic(st)
    ELSE [st EXCEPT !.changes = Put(@, field, change)]

\* PutChange that keeps the value a field already has
PutChangeKeepFirst(st, field, change) ==
    IF field \in FieldNames
    THEN IF change = Nil THEN Panic(st)
         ELSE IF ~AssignableTo(change, FieldType(field))
         THEN [st EXCEPT !.IsValid = FALSE, !.errors = Put(@, field, "type mismatch")]
         ELSE IF Has(st.changes, field) THEN st
         ELSE [st EXCEPT !.changes = Put(@, field, change)]
    ELSE [st EXCEPT !.IsValid = FALSE, !.errors = Put(@, field, field \o " is invalid")]

\* PutChange that deletes the field's error when the write succeeds
PutChangeClearsError(st, field, change) ==
    IF field \in FieldNames
    THEN IF change = Nil THEN Panic(st)
         ELSE IF ~AssignableTo(change, FieldType(field))
         THEN [st EXCEPT !.IsValid = FALSE, !.errors = Put(@, field, "type mismatch")]
         ELSE [st EXCEPT !.changes = Put(@, field, change),
                         !.errors = [f \in DOMAIN @ \ {field} |-> @[f]]]
    ELSE [st EXCEPT !.IsValid = FALSE, !.errors = Put(@, field, field \o " is invalid")]

\* PutChange that stores the value without asking AssignableTo
PutChangeUntyped(st, field, change) ==
    IF field \in FieldNames
    THEN IF change = Nil THEN Panic(st)
         ELSE [st EXCEPT !.changes = Put(@, field, change)]
    ELSE [st EXCEPT !.IsValid = FALSE, !.errors = Put(@, field, field \o " is invalid")]

\* func (c Changeset[T]) PutChange(field, change)
PutChange(st, field, change) ==
    IF \E i \in DOMAIN StructFields : StructFields[i].Name = field
    THEN LET i == CHOOSE j \in DOMAIN StructFields : StructFields[j].Name = field
         IN  IF change = Nil THEN Panic(st)  \* reflect.ValueOf(nil).Type()
             ELSE IF ~AssignableTo(change, TypeAt(i))
             THEN [st EXCEPT !.IsValid = FALSE,
                             !.errors = Put(@, field, "type mismatch, expected " \o TypeAt(i)
                                                       \o " got " \o TypeString(change))]
             ELSE [st EXCEPT !.changes = Put(@, field, change)]
    ELSE [st EXCEPT !.IsValid = FALSE, !.errors = Put(@, field, field \o " is invalid")]

\* the callbacks handed to UpdateChange: cb(current) returns (value, error)
Callbacks == {"toOi", "fail", "ident"}

Callback(cb, cur) ==
    CASE cb = "toOi" -> [v |-> Oi, err |-> ""]
      [] cb = "fail" -> [v |-> Nil, err |-> "callback failed"]
      [] OTHER -> [v |-> cur, err |-> ""]

\* c.changes[field]: the zero value nil when the key is missing
Index(m, k) == IF Has(m, k) THEN m[k] ELSE Nil

\* UpdateChange that stores the callback's value itself, without PutChange, and
\* leaves IsValid alone when the callback fails
UpdateChangeDirect(st, field, cb) ==
    LET r == Callback(cb, Index(st.changes, field))
    IN  IF r.err # "" THEN AddError(st, field, r.err)
        ELSE [st EXCEPT !.changes = Put(@, field, r.v)]

\* func (c Changeset[T]) UpdateChange(field, cb)
UpdateChange(st, field, cb) ==
    LET r == Callback(cb, Index(st.changes, field))
    IN  IF r.err # "" THEN [AddError(st, field, r.err) EXCEPT !.IsValid = FALSE]
        ELSE PutChange(st, field, r.v)

\* func (c Changeset[T]) ValidateRequired(need): the loop from need[i] on
RECURSIVE RequiredLoop(_, _, _)
RequiredLoop(i, need, st) ==
    IF i > Len(need) THEN st
    ELSE LET field == need[i]
         IN  IF ~Has(st.changes, field) \/ ~ValueIsValid(st.changes[field])
             THEN RequiredLoop(i + 1, need,
                      [st EXCEPT !.IsValid = FALSE, !.errors = Put(@, field, "is required")])
             ELSE RequiredLoop(i + 1, need, st)

\* ValidateRequired that returns at the first missing field
ValidateRequiredFirstOnly(st, need) ==
    LET missing == {i \in DOMAIN need : ~Has(st.changes, need[i])}
    IN  IF missing = {} THEN st
        ELSE LET i == CHOOSE j \in missing : \A k \in missing : j <= k
             IN  [st EXCEPT !.IsValid = FALSE, !.errors = Put(@, need[i], "is required")]

\* func (c Changeset[T]) ValidateRequired(need)
ValidateRequired(st, need) == RequiredLoop(1, need, st)

\* ValidateChange that lets a field without a change pass
ValidateChangeSkipsAbsent(st, field, v) ==
    LET s1 == [st EXCEPT !.validations = Put(@, field, v)]
    IN  IF ~Has(st.changes, field) THEN s1
        ELSE LET r == Validate(v, field, st.changes[field])
             IN  IF ~r.ok
                 THEN [s1 EXCEPT !.errors = Put(@, field, r.err), !.IsValid = FALSE]
                 ELSE s1

\* ValidateChange that deletes the field's error when the validator accepts
ValidateChangeClearsError(st, field, v) ==
    LET s1 == [st EXCEPT !.validations = Put(@, field, v)]
    IN  IF ~Has(st.changes, field)
        THEN [s1 EXCEPT !.errors = Put(@, field, "doesn't exist"), !.IsValid = FALSE]
        ELSE LET r == Validate(v, field, st.changes[field])
             IN  IF ~r.ok
                 THEN [s1 EXCEPT !.errors = Put(@, field, r.err), !.IsValid = FALSE]
                 ELSE [s1 EXCEPT !.errors = [f \in DOMAIN @ \ {field} |-> @[f]]]

\* func (c Changeset[T]) ValidateChange(field, v)
ValidateChange(st, field, v) ==
    LET s1 == [st EXCEPT !.validations = Put(@, field, v)]
    IN  IF ~Has(st.changes, field)
        THEN [s1 EXCEPT !.errors = Put(@, field, "doesn't exist"), !.IsValid = FALSE]
        ELSE LET r == Validate(v, field, st.changes[field])
             IN  IF ~r.ok
                 THEN [s1 EXCEPT !.errors = Put(@, field, r.err), !.IsValid = FALSE]
                 ELSE s1

-----------------------------------------------------------------------------
(* Materialization *)

\* the orders in which "for key, value := range c.changes" may visit the keys
Orders(m) == {o \in [1..Cardinality(DOMAIN m) -> DOMAIN m] : \A k \in DOMAIN m : \E i \in DOMAIN o : o[i] = k}

\* the loop of Apply over c.changes, from the i-th visited key on; inst is *s
RECURSIVE ApplyLoop(_, _, _, _)
ApplyLoop(i, order, inst, st) ==
    IF i > Len(order) THEN [inst |-> inst, st |-> st, failed |-> FALSE]
    ELSE LET key == order[i]
             value == st.changes[key]
         IN  IF key \notin FieldNames THEN ApplyLoop(i + 1, order, inst, st)
             ELSE IF value = Nil THEN [inst |-> inst, st |-> Panic(st), failed |-> TRUE]
             ELSE IF ~AssignableTo(value, FieldType(key))
             THEN [inst |-> inst,
                   st |-> AddError(st, key, "type mismatch expected " \o key \o " got " \o TypeString(value)),
                   failed |-> TRUE]
             ELSE ApplyLoop(i + 1, order, [inst EXCEPT ![key] = value], st)

\* Apply without the IsValid gate
ApplyUnchecked(inst, st, order) == ApplyLoop(1, order, inst, st)

\* Apply that returns after the first key it visits
ApplyFirstOnly(inst, st, order) ==
    IF ~st.IsValid THEN [inst |-> inst, st |-> st, failed |-> TRUE]
    ELSE ApplyLoop(1, SubSeq(order, 1, IF Len(order) > 0 THEN 1 ELSE 0), inst, st)

\* Apply that gives the instance back as it was when an assignment fails
ApplyRollback(inst, st, order) ==
    IF ~st.IsValid THEN [inst |-> inst, st |-> st, failed |-> TRUE]
    ELSE LET r == ApplyLoop(1, order, inst, st)
         IN  IF r.failed THEN [r EXCEPT !.inst = inst] ELSE r

\* func Apply[T](s *T, c Changeset[T]) error
Apply(inst, st, order) ==
    IF ~st.IsValid THEN [inst |-> inst, st |-> st, failed |-> TRUE]
    ELSE ApplyLoop(1, order, inst, st)

\* ErrorJSON that keeps one entry only
ErrorJSONSingle(er) ==
    IF er = EmptyMap THEN er
    ELSE [f \in {CHOOSE f \in DOMAIN er : TRUE} |-> er[f]]

\* (c *Changeset[T]) ErrorJSON(): field -> err.Error()
ErrorJSON(er) == [field \in DOMAIN er |-> er[field]]

\* (c *Changeset[T]) Error(): the header, then one "field: err" piece per entry
\* of c.GetErrors(), in the order the range visits them
ErrorText(er, order) ==
    <<"Changeset has errors:">> \o [i \in 1..Len(order) |-> order[i] \o ": " \o er[order[i]]]

\* GetParams that returns only the entries that are fields of T
GetParamsFiltered(p) == [f \in DOMAIN p \cap FieldNames |-> p[f]]

\* (c Changeset[T]) GetParams(): the map stored by Cast, as it is
GetParams(p) == p

\* the nil Validator
NoValidator == [name |-> "nil"]

\* (c Changeset[T]) TraverseErrors(cb): field -> the (err, validator) that cb is
\* called with
TraverseErrors(er, va) ==
    [field \in DOMAIN er |-> [err |-> er[field],
                              v |-> IF Has(va, field) THEN va[field] ELSE NoValidator]]

-----------------------------------------------------------------------------
(* State machine *)

NoCall == [op |-> "none", src |-> "", dst |-> "", field |-> "", arg |-> Nil,
           pre |-> Receiver(EmptyMap, EmptyMap, EmptyMap, FALSE)]

NoResult == [by |-> "none", failed |-> FALSE, IsValid |-> FALSE, inst |-> ZeroT]

Dead == [live |-> FALSE, IsValid |-> FALSE]

NoVerdict == [v |-> NoValidator, field |-> "", value |-> Nil, ok |-> FALSE, err |-> ""]

Init ==
    /\ pc = "init"
    /\ params = EmptyMap
    /\ changes = EmptyMap
    /\ errors = EmptyMap
    /\ validations = EmptyMap
    /\ cs = [v \in Vars |-> Dead]
    /\ target = Existing
    /\ result = NoResult
    /\ steps = 0
    /\ last = NoCall
    /\ verdict = NoVerdict

\* the receiver of a method called on caller variable v
Recv(v) == Receiver(changes, errors, validations, cs[v].IsValid)

\* c := Cast[T](p)
DoCast ==
    /\ pc = "init"
    /\ \E p \in Payloads :
         LET r == CastOf(p)
         IN  /\ params' = p
             /\ last' = [NoCall EXCEPT !.op = "Cast", !.dst = "c", !.arg = p]
             /\ IF r.panic
                THEN /\ pc' = "panic"
                     /\ UNCHANGED <<changes, errors, validations, cs>>
                ELSE /\ pc' = "chain"
                     /\ changes' = r.changes
                     /\ errors' = r.errors
                     /\ validations' = r.validations
                     /\ cs' = [cs EXCEPT !["c"] = [live |-> TRUE, IsValid |-> r.IsValid]]
    /\ UNCHANGED <<target, result, steps, verdict>>

\* d = s.op(..) returning r: the maps are written in place, the returned struct
\* (with its own IsValid) is stored in caller variable d
Return(op, s, d, field, arg, r) ==
    /\ last' = [op |-> op, src |-> s, dst |-> d, field |-> field, arg |-> arg, pre |-> Recv(s)]
    /\ steps' = steps + 1
    /\ IF r.panic
       THEN /\ pc' = "panic"
            /\ UNCHANGED <<changes, errors, validations, cs>>
       ELSE /\ pc' = pc
            /\ changes' = r.changes
            /\ errors' = r.errors
            /\ validations' = r.validations
            /\ cs' = [cs EXCEPT ![d] = [live |-> TRUE, IsValid |-> r.IsValid]]
    /\ UNCHANGED <<params, target, result, verdict>>

\* the base c keeps the value Cast returned; a call on c starts a branch r, a call
\* on r continues it (r = r.Op(..))
Dst(s) == {"r"}

CanCall(s) == pc = "chain" /\ steps < MaxOps /\ cs[s].live

DoPutChange ==
    \E s \in Vars : \E d \in Dst(s), field \in Keys, change \in CallValues :
        /\ CanCall(s)
        /\ Return("PutChange", s, d, field, change, PutChange(Recv(s), field, change))

DoUpdateChange ==
    \E s \in Vars : \E d \in Dst(s), field \in Keys, cb \in Callbacks :
        /\ CanCall(s)
        /\ Return("UpdateChange", s, d, field, cb, UpdateChange(Recv(s), field, cb))

NeedLists == {<<>>, <<"A">>, <<"B">>, <<"foo">>, <<"A", "B">>, <<"B", "A">>}

DoValidateRequired ==
    \E s \in Vars : \E d \in Dst(s), need \in NeedLists :
        /\ CanCall(s)
        /\ Return("ValidateRequired", s, d, "", need, ValidateRequired(Recv(s), need))

DoValidateChange ==
    \E s \in Vars : \E d \in Dst(s), field \in Keys, v \in Validators :
        /\ CanCall(s)
        /\ Return("ValidateChange", s, d, field, v, ValidateChange(Recv(s), field, v))

Messages == {"WE HAVE AN ERROR"}

DoAddError ==
    \E s \in Vars : \E d \in Dst(s), field \in Keys, err \in Messages :
        /\ CanCall(s)
        /\ Return("AddError", s, d, field, err, AddError(Recv(s), field, err))

\* err := Apply(&target, s) / inst, err := ApplyNew(s)
Materialize(by, s, inst, r) ==
    /\ last' = [op |-> by, src |-> s, dst |-> "", field |-> "", arg |-> Nil, pre |-> Recv(s)]
    /\ pc' = IF r.st.panic THEN "panic" ELSE "applied"
    /\ errors' = r.st.errors
    /\ result' = [by |-> by, failed |-> r.failed, IsValid |-> r.st.IsValid, inst |-> r.inst]
    /\ UNCHANGED <<params, changes, validations, cs, steps, verdict>>

DoApply ==
    \E s \in Vars, order \in Orders(changes) :
        /\ pc = "chain" /\ cs[s].live
        /\ LET r == Apply(target, Recv(s), order)
           IN  Materialize("Apply", s, target, r) /\ target' = r.inst

DoApplyNew ==
    \E s \in Vars, order \in Orders(changes) :
        /\ pc = "chain" /\ cs[s].live
        /\ LET r == Apply(ZeroT, Recv(s), order)
           IN  Materialize("ApplyNew", s, ZeroT, r) /\ UNCHANGED target

Next ==
    \/ DoCast
    \/ DoPutChange
    \/ DoUpdateChange
    \/ DoValidateRequired
    \/ DoValidateChange
    \/ DoAddError
    \/ DoApply
    \/ DoApplyNew

Spec == Init /\ [][Next]_vars

-----------------------------------------------------------------------------
(* Apply on any Changeset value.  Cast admits a value when the name of its    *)
(* type equals the name of the field's type (line 302), Apply asks            *)
(* AssignableTo (line 349); for a T whose field types have names that other   *)
(* types share, and for a Changeset built inside the package, the loop of     *)
(* Apply meets values that are not assignable.  This specification starts     *)
(* from every changes map over the keys and runs Apply / ApplyNew once,       *)
(* keeping the order in which the range visited the keys.                     *)

ApplyChanges == Maps(Keys, {Hello, Two})

InitApply ==
    /\ pc = "chain"
    /\ params = EmptyMap
    /\ changes \in ApplyChanges
    /\ errors = EmptyMap
    /\ validations = EmptyMap
    /\ \E iv \in BOOLEAN : cs = [v \in Vars |-> IF v = "c" THEN [live |-> TRUE, IsValid |-> iv] ELSE Dead]
    /\ target = Existing
    /\ result = NoResult
    /\ steps = 0
    /\ last = NoCall
    /\ verdict = NoVerdict

\* err := Apply(&target, c) / inst, err := ApplyNew(c), the range visiting the keys
\* of c.changes in the given order
DoApplyInOrder ==
    \E by \in {"Apply", "ApplyNew"}, order \in Orders(changes) :
        /\ pc = "chain"
        /\ LET inst == IF by = "Apply" THEN target ELSE ZeroT
               r == Apply(inst, Recv("c"), order)
           IN  /\ last' = [op |-> by, src |-> "c", dst |-> "", field |-> "", arg |-> order,
                           pre |-> Recv("c")]
               /\ pc' = IF r.st.panic THEN "panic" ELSE "applied"
               /\ errors' = r.st.errors
               /\ result' = [by |-> by, failed |-> r.failed, IsValid |-> r.st.IsValid, inst |-> r.inst]
               /\ target' = IF by = "Apply" THEN r.inst ELSE target
        /\ UNCHANGED <<params, changes, validations, cs, steps, verdict>>

NextApply == DoApplyInOrder

SpecApply == InitApply /\ [][NextApply]_vars

-----------------------------------------------------------------------------
(* The validators called directly: ok, err := v.Validate(field, value), for    *)
(* every validator and every value of the sets below.                         *)

MaxNum == 5

MinNum == -2

\* bounds of the validators and int values
Numbers == MinNum..MaxNum

MaxList == 2

Int64V(n) == [type |-> "int64", s |-> "", n |-> n]
BoolV(b) == [type |-> "bool", s |-> "", n |-> IF b THEN 1 ELSE 0]

\* a []interface{} with n items and a map[string]interface{} with n elements
SliceV(n) == [type |-> "[]interface {}", s |-> "", n |-> n]
MapV(n) == [type |-> "map[string]interface {}", s |-> "", n |-> n]

\* reflect.TypeOf(v).Kind()
Kind(v) ==
    CASE v.type = "[]interface {}" -> "slice"
      [] v.type = "map[string]interface {}" -> "map"
      [] OTHER -> v.type

\* len(v) of a string, slice or map
Count(v) == IF Kind(v) = "string" THEN StrLen(v.s) ELSE v.n

ValidateValues ==
    {StrV(""), Oi, Hello} \cup {IntV(n) : n \in Numbers} \cup {Int64V(2)}
        \cup {BoolV(TRUE), BoolV(FALSE)} \cup {SliceV(n) : n \in 0..2} \cup {MapV(n) : n \in 0..2}

\* hello, l+, x*, o*, ^$, ^o, i$, z
Patterns ==
    {<<Char("h"), Char("e"), Char("l"), Char("l"), Char("o")>>, <<Char("l"), Star("l")>>,
     <<Star("x")>>, <<Star("o")>>, <<Bol, Eol>>, <<Bol, Char("o")>>, <<Char("i"), Eol>>,
     <<Char("z")>>}

ListValues == {Oi, Two, Int64V(2)}

Lists == UNION {[1..n -> ListValues] : n \in 0..MaxList}

AllValidators ==
    {LengthValidator(min, max) : min \in Numbers, max \in Numbers}
        \cup {FormatValidator(p) : p \in Patterns}
        \cup {AcceptanceValidator}
        \cup {ExclusionValidator(l) : l \in Lists}
        \cup {InclusionValidator(l) : l \in Lists}
        \cup {LessThanValidator("int", n) : n \in Numbers}
        \cup {LessThanOrEqualValidator("int", n) : n \in Numbers}
        \cup {GreaterThanValidator("int", n) : n \in Numbers}
        \cup {GreaterThanOrEqualValidator("int", n) : n \in Numbers}

\* ok, err := v.Validate("A", value)
DoValidate ==
    \E v \in AllValidators, value \in ValidateValues :
        /\ pc = "init" /\ verdict = NoVerdict
        /\ LET r == Validate(v, "A", value)
           IN  verdict' = [v |-> v, field |-> "A", value |-> value, ok |-> r.ok, err |-> r.err]
        /\ UNCHANGED <<pc, params, changes, errors, validations, cs, target, result, steps, last>>

NextValidate == DoValidate

SpecValidate == Init /\ [][NextValidate]_vars

-----------------------------------------------------------------------------
(* Properties *)

ChainOps == {"PutChange", "UpdateChange", "ValidateRequired", "ValidateChange", "AddError"}

\* the last call was op and it returned (it did not panic)
Returned(op) == last.op = op /\ pc = "chain"

ChainReturned == last.op \in ChainOps /\ pc = "chain"

Materialized == last.op \in {"Apply", "ApplyNew"} /\ pc = "applied"

\* the Changeset value the last call returned
Out == cs[last.dst]

\* the fields of T whose payload value has another type than the field
Mismatched(p) == {f \in FieldNames : Has(p, f) /\ p[f] # Nil /\ TypeString(p[f]) # FieldType(f)}

\* the fields of T whose payload value has the field's type
Matching(p) == {f \in FieldNames : Has(p, f) /\ p[f] # Nil /\ TypeString(p[f]) = FieldType(f)}

\* C1: after Cast and after every chain operation the returned Changeset has
\* IsValid exactly when its errors map is empty.
C1_ValidIffNoErrors ==
    (Returned("Cast") \/ ChainReturned) => (Out.IsValid <=> DOMAIN errors = {})

\* C2: a chain operation called on a base Changeset leaves the base's changes,
\* errors, validations and IsValid as they were before the call.
C2_BaseUntouched ==
    (ChainReturned /\ last.src # last.dst) =>
        /\ changes = last.pre.changes
        /\ errors = last.pre.errors
        /\ validations = last.pre.validations
        /\ cs[last.src].IsValid = last.pre.IsValid

\* C3: a chain operation called on a Changeset with IsValid = false returns a
\* Changeset with IsValid = false.
C3_InvalidAbsorbing ==
    (ChainReturned /\ ~last.pre.IsValid) => ~Out.IsValid

\* C3 witness: a PutChange that succeeded on an invalid Changeset
C3_Witness ==
    /\ Returned("PutChange") /\ ~last.pre.IsValid
    /\ Has(changes, last.field) /\ changes[last.field] = last.arg
    /\ ~Has(last.pre.changes, last.field)
    /\ ~Has(errors, last.field)

\* C4: materialization of a Changeset whose errors map is not empty fails, and
\* the error it returns exposes every entry of the errors map.
C4_ErrorsRejected ==
    (Materialized /\ DOMAIN last.pre.errors # {}) =>
        /\ result.failed
        /\ \A f \in DOMAIN last.pre.errors :
               Has(ErrorJSON(errors), f) /\ ErrorJSON(errors)[f] = last.pre.errors[f]

\* C5: Apply and ApplyNew on a Changeset with IsValid = false return an error
\* and write no field of the target instance.
C5_InvalidNotApplied ==
    (Materialized /\ ~last.pre.IsValid) =>
        /\ result.failed
        /\ target = Existing
        /\ result.inst = IF result.by = "Apply" THEN Existing ELSE ZeroT
        /\ errors = last.pre.errors

\* C5 witness: Apply on an invalid Changeset whose changes differ from the target
C5_Witness ==
    /\ Materialized /\ result.by = "Apply" /\ ~last.pre.IsValid
    /\ Has(changes, "A") /\ changes["A"] # Existing.A
    /\ Has(changes, "B") /\ changes["B"] # Existing.B

C8_ChangesWithinSchema == DOMAIN changes \subseteq FieldNames

\* C8 witness: PutChange was called with a name that is no field of T, on a
\* Changeset whose payload also had that key
C8_Witness ==
    /\ Returned("PutChange") /\ last.field \notin FieldNames /\ last.arg # Nil
    /\ Has(params, last.field)

\* the last PutChange named no field of T, or gave a value of another type
PutRejected ==
    /\ Returned("PutChange")
    /\ \/ last.field \notin FieldNames
       \/ last.arg # Nil /\ TypeString(last.arg) # FieldType(last.field)

\* C9: a PutChange with a name that is no field of T, or with a value of another
\* type than the field's, records an error on the field, sets IsValid to false and
\* leaves the changes map as it was.
C9_PutRejectedKeepsChanges ==
    PutRejected =>
        /\ Has(errors, last.field)
        /\ ~Out.IsValid
        /\ changes = last.pre.changes

\* C9 witness: a mistyped PutChange on a field that had an accepted value, on a
\* Changeset that was valid
C9_Witness ==
    /\ PutRejected /\ last.field \in FieldNames
    /\ Has(last.pre.changes, last.field) /\ last.pre.IsValid

\* the call was PutChange(field, value) with a field of T and a value of its type
PutAccepted(call) ==
    /\ call.op = "PutChange"
    /\ call.field \in FieldNames
    /\ call.arg # Nil /\ TypeString(call.arg) = FieldType(call.field)

\* C10: PutChange(A, x) followed by PutChange(A, y) on its result, with x and y
\* of A's type, leaves changes[A] = y and every other entry of changes, the
\* errors map and IsValid as they were before the two calls.
C10_LastWriteWins ==
    [][(/\ pc = "chain" /\ pc' = "chain"
        /\ PutAccepted(last) /\ PutAccepted(last')
        /\ last'.field = last.field /\ last'.src = last.dst)
       => /\ changes' = Put(last.pre.changes, last.field, last'.arg)
          /\ errors' = last.pre.errors
          /\ cs'[last'.dst].IsValid = last.pre.IsValid]_vars

\* C10 witness: the second of the two calls PutChange(A, "hello"), PutChange(A, "oi")
\* returned; the payload had no A, so that "hello" was written by the first call,
\* and B is kept
C10_Witness ==
    /\ Returned("PutChange") /\ PutAccepted(last) /\ last.src = "r" /\ steps = 2
    /\ last.field = "A" /\ last.arg = Oi /\ ~Has(params, "A")
    /\ Has(last.pre.changes, "A") /\ last.pre.changes["A"] = Hello
    /\ changes["A"] = Oi
    /\ DOMAIN changes = FieldNames

\* what the callback of the last UpdateChange returned
CallbackResult == Callback(last.arg, Index(last.pre.changes, last.field))

\* what PutChange(field, v) returns on the Changeset the last call started from
PutFromPre(v) == PutChange(last.pre, last.field, v)

\* C11: UpdateChange(field, cb): when cb fails its error is recorded under field,
\* IsValid becomes false and changes is untouched; when cb returns v the result is
\* the one PutChange(field, v) gives from the same Changeset.
C11_UpdateChange ==
    (last.op = "UpdateChange" /\ pc \in {"chain", "panic"}) =>
        IF CallbackResult.err # ""
        THEN /\ pc = "chain"
             /\ Has(errors, last.field) /\ errors[last.field] = CallbackResult.err
             /\ ~Out.IsValid
             /\ changes = last.pre.changes
        ELSE IF PutFromPre(CallbackResult.v).panic THEN pc = "panic"
        ELSE /\ pc = "chain"
             /\ changes = PutFromPre(CallbackResult.v).changes
             /\ errors = PutFromPre(CallbackResult.v).errors
             /\ validations = PutFromPre(CallbackResult.v).validations
             /\ Out.IsValid = PutFromPre(CallbackResult.v).IsValid

\* C11 witness: a failing callback on a field that has a value, on a valid Changeset
C11_Witness ==
    /\ Returned("UpdateChange") /\ CallbackResult.err # ""
    /\ Has(changes, last.field) /\ last.pre.IsValid /\ ~Has(last.pre.errors, last.field)

\* the fields the last ValidateRequired listed
Listed == {last.arg[i] : i \in DOMAIN last.arg}

\* C12: ValidateRequired(fields) puts an "is required" error on every listed field
\* that is absent from changes, sets IsValid to false when there is one, gives the
\* listed fields that are present no new error and leaves changes as it was.
C12_RequiredAccumulates ==
    Returned("ValidateRequired") =>
        /\ \A f \in Listed \ DOMAIN last.pre.changes :
               Has(errors, f) /\ errors[f] = "is required"
        /\ (Listed \ DOMAIN last.pre.changes # {} => ~Out.IsValid)
        /\ \A f \in Listed \cap DOMAIN last.pre.changes :
               /\ Has(errors, f) <=> Has(last.pre.errors, f)
               /\ Has(errors, f) => errors[f] = last.pre.errors[f]
        /\ changes = last.pre.changes

\* C12 witness: ValidateRequired(["A", "B"]) on a valid Changeset that has neither
C12_Witness ==
    /\ Returned("ValidateRequired") /\ last.arg = <<"A", "B">>
    /\ last.pre.changes = EmptyMap /\ last.pre.IsValid /\ last.pre.errors = EmptyMap
    /\ DOMAIN errors = {"A", "B"}

\* what the validator of the last ValidateChange says of the field's value
Verdict == Validate(last.arg, last.field, last.pre.changes[last.field])

\* C13: ValidateChange on a field absent from changes records "doesn't exist" on
\* it and sets IsValid to false; on a field whose value the validator rejects it
\* records the validator's error and sets IsValid to false; changes is unchanged.
C13_ValidateChangeFails ==
    Returned("ValidateChange") =>
        IF ~Has(last.pre.changes, last.field)
        THEN /\ Has(errors, last.field) /\ errors[last.field] = "doesn't exist"
             /\ ~Out.IsValid
             /\ changes = last.pre.changes
        ELSE ~Verdict.ok =>
             /\ Has(errors, last.field) /\ errors[last.field] = Verdict.err
             /\ ~Out.IsValid
             /\ changes = last.pre.changes

\* C13 witness: a validator rejected the value of a field of a valid Changeset
C13_Witness ==
    /\ Returned("ValidateChange") /\ Has(last.pre.changes, last.field)
    /\ ~Verdict.ok /\ last.pre.IsValid /\ last.pre.errors = EmptyMap

\* C14: when the validator accepts the value, ValidateChange leaves changes, errors
\* and IsValid as they were and sets validations[field] to the validator.
C14_ValidateChangePasses ==
    (Returned("ValidateChange") /\ Has(last.pre.changes, last.field) /\ Verdict.ok) =>
        /\ changes = last.pre.changes
        /\ errors = last.pre.errors
        /\ Out.IsValid = last.pre.IsValid
        /\ validations = Put(last.pre.validations, last.field, last.arg)

\* C14 witness: a validator accepted the value of a field that had an error and
\* another validator on record
C14_Witness ==
    /\ Returned("ValidateChange") /\ Has(last.pre.changes, last.field) /\ Verdict.ok
    /\ Has(last.pre.errors, last.field)
    /\ Has(last.pre.validations, last.field)
    /\ last.pre.validations[last.field] # last.arg

\* C15: AddError(field, message) returns a Changeset whose errors[field] is the
\* message and whose IsValid is false.
C15_AddErrorInvalidates ==
    Returned("AddError") =>
        /\ Has(errors, last.field) /\ errors[last.field] = last.arg
        /\ ~Out.IsValid

\* the instance the last materialization started from
Before == IF last.op = "Apply" THEN Existing ELSE ZeroT

C17_NeverPanics == last.op \in ChainOps => pc # "panic"

\* C18: when a validator's Validate call produced the error stored for a field,
\* TraverseErrors passes that validator for the field, also after another
\* validator was applied to the field and accepted its value.
C18_Provenance ==
    [][(/\ pc = "chain" /\ pc' = "chain"
        /\ last.op = "ValidateChange" /\ Has(last.pre.changes, last.field) /\ ~Verdict.ok
        /\ last'.op = "ValidateChange" /\ last'.src = last.dst
        /\ last'.field = last.field
        /\ Validate(last'.arg, last.field, changes[last.field]).ok)
       => TraverseErrors(errors', validations')[last.field] =
              [err |-> Verdict.err, v |-> last.arg]]_vars

\* C19: the map form of the aggregate error has exactly the entries of the errors
\* map, and its string form lists exactly the fields of the errors map, each
\* with its message.
C19_ErrorForms ==
    (Materialized /\ result.failed) =>
        /\ DOMAIN ErrorJSON(errors) = DOMAIN errors
        /\ \A f \in DOMAIN errors : ErrorJSON(errors)[f] = errors[f]
        /\ \A order \in Orders(errors) :
               /\ Len(ErrorText(errors, order)) = 1 + Cardinality(DOMAIN errors)
               /\ \A f \in DOMAIN errors : \E i \in 2..Len(ErrorText(errors, order)) :
                      ErrorText(errors, order)[i] = f \o ": " \o errors[f]

\* C19 witness: a materialization that failed with errors on two fields
C19_Witness ==
    /\ Materialized /\ result.failed
    /\ Cardinality(DOMAIN errors) = 2

\* C20: no call removes an entry from errors.
C20_ErrorsOnlyGrow ==
    (ChainReturned \/ Materialized) => DOMAIN last.pre.errors \subseteq DOMAIN errors

\* C20 witness: a PutChange that succeeded on a field that had an error
C20_Witness ==
    /\ Returned("PutChange") /\ PutAccepted(last)
    /\ Has(last.pre.errors, last.field) /\ Has(errors, last.field)
    /\ changes[last.field] = last.arg

\* C21: GetParams right after Cast is the payload given to Cast, keys that are no
\* field and mistyped values included, and no later chain operation or
\* materialization changes what GetParams returns.
C21_ParamsImmutable ==
    [][/\ (last'.op = "Cast" /\ pc' = "chain") => GetParams(params') = last'.arg
       /\ pc # "init" => GetParams(params') = GetParams(params)]_vars

\* C21 witness: after a chain operation that changed the changes map and a
\* materialization, on a payload with a key that is no field and a mistyped value
C21_Witness ==
    /\ Materialized /\ steps > 0
    /\ Has(params, "foo") /\ Mismatched(params) # {}
    /\ DOMAIN changes # Matching(params)
    /\ GetParams(params) # GetParamsFiltered(params)

\* the places in the visiting order that hold a field of T with a value of
\* another type than the field's
Unassignable(order, ch) ==
    {i \in DOMAIN order : order[i] \in FieldNames /\ TypeString(ch[order[i]]) # FieldType(order[i])}

\* the first of them
FirstUnassignable(order, ch) ==
    CHOOSE i \in Unassignable(order, ch) : \A j \in Unassignable(order, ch) : i <= j

\* C22: when Apply on a valid Changeset meets a value that is not assignable to
\* its field, it returns an error, the fields visited before that value hold
\* their changes, and every other field holds the value it had before the call.
C22_NoRollback ==
    (Materialized /\ last.pre.IsValid /\ Unassignable(last.arg, last.pre.changes) # {}) =>
        LET bad == FirstUnassignable(last.arg, last.pre.changes)
            done == {last.arg[j] : j \in 1..(bad - 1)} \cap FieldNames
        IN  /\ result.failed
            /\ \A f \in FieldNames :
                   result.inst[f] = IF f \in done THEN last.pre.changes[f] ELSE Before[f]
            /\ (last.op = "Apply" => target = result.inst)

\* C22 witness: Apply in place assigned B, then met a value for A that is not a
\* string; B's new value differs from the one the target had
C22_Witness ==
    /\ Materialized /\ last.op = "Apply" /\ last.pre.IsValid
    /\ Unassignable(last.arg, last.pre.changes) # {}
    /\ last.arg[FirstUnassignable(last.arg, last.pre.changes)] = "A"
    /\ \E j \in 1..(FirstUnassignable(last.arg, last.pre.changes) - 1) : last.arg[j] = "B"
    /\ target.B = last.pre.changes["B"] /\ target.B # Existing.B
    /\ target.A = Existing.A /\ result.failed

\* the last direct call was on a validator of the given type
Validated(name) == verdict.v.name = name

\* the length rule: l == Min when Min == Max, otherwise Min <= l <= Max
LengthFits(l, min, max) == IF min = max THEN l = min ELSE min <= l /\ l <= max

\* C23: LengthValidator{Min, Max} passes on a string, a slice or a map exactly
\* when the number of its elements fits the length rule.
C23_LengthAllKinds ==
    (Validated("LengthValidator") /\ Kind(verdict.value) \in {"string", "slice", "map"}) =>
        (verdict.ok <=> LengthFits(Count(verdict.value), verdict.v.Min, verdict.v.Max))

\* C24: LengthValidator rejects every value that is no string, slice or map, for
\* every Min and Max.
C24_LengthRejectsOthers ==
    (Validated("LengthValidator") /\ Kind(verdict.value) \notin {"string", "slice", "map"}) =>
        ~verdict.ok

\* C25: FormatValidator passes exactly when the value is a string and the
\* pattern has a match in it, a match of no characters included.
C25_FormatMatches ==
    Validated("FormatValidator") =>
        (verdict.ok <=> /\ Kind(verdict.value) = "string"
                        /\ MatchStarts(verdict.v.Pattern, Chars(verdict.value.s)) # {})

\* the elements of a list
Elements(list) == {list[i] : i \in DOMAIN list}

\* C26: ExclusionValidator passes exactly when the value equals no element of
\* Disallowed.
C26_ExclusionExact ==
    Validated("ExclusionValidator") =>
        (verdict.ok <=> verdict.value \notin Elements(verdict.v.Disallowed))

\* C27: InclusionValidator passes exactly when the value equals an element of
\* Allowed; it fails for every value when Allowed is empty.
C27_InclusionExact ==
    Validated("InclusionValidator") =>
        (verdict.ok <=> verdict.value \in Elements(verdict.v.Allowed))

\* C27 witness: the value equals the second element of Allowed and not the
\* first, and there is a value of the same number and another type in the list
C27_Witness ==
    /\ Validated("InclusionValidator") /\ verdict.ok
    /\ Len(verdict.v.Allowed) = 2
    /\ verdict.value = verdict.v.Allowed[2] /\ verdict.value # verdict.v.Allowed[1]
    /\ verdict.v.Allowed[1].n = verdict.value.n

\* the last direct call gave a numeric validator a value of its Number type
Numeric(name) == Validated(name) /\ verdict.value.type = verdict.v.T

\* C28: LessThanValidator passes exactly when v < MaxValue and
\* GreaterThanValidator exactly when v > MinValue.
C28_StrictComparison ==
    /\ Numeric("LessThanValidator") => (verdict.ok <=> verdict.value.n < verdict.v.MaxValue)
    /\ Numeric("GreaterThanValidator") => (verdict.ok <=> verdict.value.n > verdict.v.MinValue)

\* C29: LessThanOrEqualValidator passes exactly when v <= MaxValue and
\* GreaterThanOrEqualValidator exactly when v >= MinValue.
C29_NonStrictComparison ==
    /\ Numeric("LessThanOrEqualValidator") =>
           (verdict.ok <=> verdict.value.n <= verdict.v.MaxValue)
    /\ Numeric("GreaterThanOrEqualValidator") =>
           (verdict.ok <=> verdict.value.n >= verdict.v.MinValue)

====
